---- MODULE Spec2Model ----
(***************************************************************************)
(* State machine of the App component of src/App.tsx: the React state      *)
(* cells, the asynchronous handlers that drive the decade generation        *)
(* pipeline (batch worker pool, single regeneration), the caption           *)
(* overrides and the album handlers.                                        *)
(*                                                                          *)
(* JavaScript runs each handler and each promise continuation to its next   *)
(* await without interruption, so one action is one such run: from an       *)
(* event or a settled promise to the next suspension point.  A handler is   *)
(* enabled when the JSX of lines 303-450 renders the control that calls it. *)
(***************************************************************************)
EXTENDS Integers, Sequences, FiniteSets, TLC

(***************************************************************************)
(* Bounds of the model.                                                     *)
(***************************************************************************)
\* how many identifiers of the catalog (line 12) the model keeps
NumDecades == 3
\* how many files the user picks in one run (each pick is a new image)
MaxUploads == 2
\* how many regeneration calls may be awaiting the generator at once
MaxRegens == 2
\* how many FileReaders may be loading at once when the whole application runs
MaxReaders == 1
\* how many regeneration calls may be awaiting at once when the whole application runs
MaxRetries == 1
\* how many cards may carry a caption override at once
MaxOverrides == 1

(***************************************************************************)
(* Program constants.                                                       *)
(***************************************************************************)
concurrencyLimit == 2

DECADES == SubSeq(<<"1950s", "1960s", "1970s", "1980s", "1990s", "2000s">>, 1, NumDecades)

DecadeSet == {DECADES[i] : i \in 1..Len(DECADES)}

\* uploadedImage is null (0) or the data URL of the n-th picked file
NoImage == 0
Images == 1..MaxUploads

VARIABLES
    uploadedImage,      \* useState<string | null>, line 59
    generatedImages,    \* useState<Record<string, GeneratedImage>>, line 60
    customCaptions,     \* useState<Record<string, string>>, line 61
    isLoading,          \* line 62
    isDownloading,      \* line 63
    appState,           \* line 64
    canShare,           \* line 66
    readers,            \* FileReaders started by handleImageUpload, not yet ended
    picked,             \* number of files picked so far
    batches,            \* the runs of handleGenerateClick, by source image
    regens,             \* the runs of handleRegenerateDecade awaiting the generator
    album,              \* the run of handleDownloadAlbum / handleShareAlbum
    lastOp              \* the handler or continuation that ran last, and what it did

vars == <<uploadedImage, generatedImages, customCaptions, isLoading, isDownloading,
          appState, canShare, readers, picked, batches, regens, album, lastOp>>

(***************************************************************************)
(* JavaScript objects with string keys: the keys keep insertion order, and  *)
(* {...prev, [k]: v} replaces the value of an existing key in place.        *)
(***************************************************************************)
Keys(obj) == [i \in 1..Len(obj) |-> obj[i].key]

Has(obj, k) == \E i \in 1..Len(obj) : obj[i].key = k

Get(obj, k) == obj[CHOOSE i \in 1..Len(obj) : obj[i].key = k].val

\* an update that forgets the spread of prev: { [k]: v }
PutAlone(obj, k, v) == <<[key |-> k, val |-> v]>>

Put(obj, k, v) ==
    IF Has(obj, k)
    THEN [i \in 1..Len(obj) |-> IF obj[i].key = k THEN [key |-> k, val |-> v] ELSE obj[i]]
    ELSE Append(obj, [key |-> k, val |-> v])

\* generatedImages[decade]?.status
Status(obj, k) == IF Has(obj, k) THEN Get(obj, k).status ELSE "undefined"

(***************************************************************************)
(* GeneratedImage, lines 34-39: url and error are optional fields.          *)
(***************************************************************************)
Pending == [status |-> "pending"]

Done(url) == [status |-> "done", url |-> url]

\* a catch branch that keeps a url field in the entry it writes
FailedWithUrl(msg) == [status |-> "error", error |-> msg, url |-> ""]

Failed(msg) == [status |-> "error", error |-> msg]

(***************************************************************************)
(* generateDecadeImage (services/geminiService, imported at line 7): it     *)
(* resolves with the image made from the source image and the prompt of     *)
(* the decade, or rejects with a thrown value.                              *)
(***************************************************************************)
ResultUrl(image, decade) == [image |-> image, decade |-> decade]

QuotaError == [isError |-> TRUE, message |-> "quota exceeded"]

Thrown ==
    { QuotaError,
      [isError |-> TRUE, message |-> ""],
      [isError |-> FALSE, message |-> "undefined"] }

Outcomes(thrown) == {[ok |-> TRUE]} \cup {[ok |-> FALSE, err |-> e] : e \in thrown}

\* err instanceof Error ? err.message : "An unknown error occurred."
ErrorMessage(err) == IF err.isError THEN err.message ELSE "An unknown error occurred."

\* a continuation that writes no outcome: the entry stays { status: 'pending' }
SettledStillPending(image, decade, outcome) == Pending

\* the entry written after await generateDecadeImage(...) settles: the try
\* branch of lines 109-112 / 158-161 or the catch branch of lines 114-118 / 163-167
Settled(image, decade, outcome) ==
    IF outcome.ok
    THEN Done(ResultUrl(image, decade))
    ELSE Failed(ErrorMessage(outcome.err))

(***************************************************************************)
(* Initial state: the useState initialisers of lines 59-66.  canShare is    *)
(* set once by the effect of lines 69-75 from what the browser offers.      *)
(***************************************************************************)
NoOverride == "undefined"

NoCaptions == [d \in DecadeSet |-> NoOverride]

Captions == {"Groovy Me"}

\* a run of handleGenerateClick: the local decadesQueue, the position of each
\* worker, the decades passed to processDecade so far, in call order, and
\* (in the specifications that keep it, while the run is not over) the entry
\* each processDecade wrote
NoResult == [status |-> "none"]

NoBatch ==
    [pc |-> "none", decadesQueue |-> <<>>,
     workers |-> [w \in 1..concurrencyLimit |-> [pc |-> "new", decade |-> ""]],
     issued |-> <<>>,
     results |-> [d \in DecadeSet |-> NoResult]]

NoAlbum == [pc |-> "idle", kind |-> "none", imageData |-> <<>>,
            captions |-> NoCaptions, fileName |-> <<>>]

\* lastOp: the handler or continuation, what it did, and for a continuation
\* of the pipeline the source image its call was made with
Run(op, did, image) == [op |-> op, did |-> did, image |-> image]

Op(op, did) == Run(op, did, NoImage)

Init ==
    /\ uploadedImage = NoImage
    /\ generatedImages = <<>>
    /\ customCaptions = NoCaptions
    /\ isLoading = FALSE
    /\ isDownloading = FALSE
    /\ appState = "idle"
    /\ canShare \in BOOLEAN
    /\ readers = {}
    /\ picked = 0
    /\ batches = [i \in Images |-> NoBatch]
    /\ regens = [c \in DecadeSet \X Images |-> 0]
    /\ album = NoAlbum
    /\ lastOp = Op("mount", "")

(***************************************************************************)
(* What the JSX renders, lines 303-450.                                     *)
(***************************************************************************)
\* the file input, rendered in the 'idle' branch (lines 303, 335)
UploadShown == appState = "idle"

\* the 'image-uploaded' branch with its two buttons (lines 343-358)
GenerateShown == appState = "image-uploaded" /\ uploadedImage # NoImage

\* the polaroid cards with onShake and onCaptionChange (lines 361-423)
CardsShown == appState \in {"generating", "results-shown"}

\* the album buttons, disabled while isDownloading (lines 425-446)
AlbumButtonsShown == appState = "results-shown"

(***************************************************************************)
(* The test !uploadedImage of lines 91 and 139.                             *)
(***************************************************************************)
\* handlers without their first line
AlwaysUploaded(image) == FALSE

NotUploaded(image) == image = NoImage

(***************************************************************************)
(* handleImageUpload, lines 77-88, and the reader's onloadend callback.     *)
(***************************************************************************)
handleImageUpload(maxReaders) ==
    /\ UploadShown
    /\ picked < MaxUploads
    /\ Cardinality(readers) < maxReaders
    /\ picked' = picked + 1
    /\ readers' = readers \cup {picked + 1}
    /\ lastOp' = Op("handleImageUpload", "reading")
    /\ UNCHANGED <<uploadedImage, generatedImages, customCaptions, isLoading,
                   isDownloading, appState, canShare, batches, regens, album>>

\* reader.result is the data URL, or null when the read failed
ReaderLoadEnd(i, ok) ==
    /\ i \in readers
    /\ readers' = readers \ {i}
    /\ uploadedImage' = IF ok THEN i ELSE NoImage
    /\ appState' = "image-uploaded"
    /\ generatedImages' = <<>>
    /\ lastOp' = Op("onloadend", IF ok THEN "loaded" ELSE "failed")
    /\ UNCHANGED <<customCaptions, isLoading, isDownloading, canShare, picked,
                   batches, regens, album>>

(***************************************************************************)
(* handleGenerateClick, lines 90-136.                                       *)
(***************************************************************************)
\* lines 96-100
initialImages == [i \in 1..Len(DECADES) |-> [key |-> DECADES[i], val |-> Pending]]

\* a worker that reads decadesQueue[0] and leaves it in the queue
WorkerLoopPeek(w, b) ==
    IF Len(b.decadesQueue) > 0
    THEN [b EXCEPT !.workers[w] = [pc |-> "await", decade |-> Head(b.decadesQueue)],
                   !.issued = Append(b.issued, Head(b.decadesQueue))]
    ELSE [b EXCEPT !.workers[w] = [pc |-> "end", decade |-> ""]]

\* a worker that takes the last element of the queue: pop() for shift()
WorkerLoopPop(w, b) ==
    IF Len(b.decadesQueue) > 0
    THEN LET last == b.decadesQueue[Len(b.decadesQueue)]
         IN  [b EXCEPT !.decadesQueue = SubSeq(b.decadesQueue, 1, Len(b.decadesQueue) - 1),
                       !.workers[w] = [pc |-> "await", decade |-> last],
                       !.issued = Append(b.issued, last)]
    ELSE [b EXCEPT !.workers[w] = [pc |-> "end", decade |-> ""]]

\* one pass of a worker from the while test of line 124 to its next await
\* (line 108, inside processDecade) or to the end of its loop
WorkerLoop(w, b) ==
    IF Len(b.decadesQueue) > 0
    THEN [b EXCEPT !.decadesQueue = Tail(b.decadesQueue),
                   !.workers[w] = [pc |-> "await", decade |-> Head(b.decadesQueue)],
                   !.issued = Append(b.issued, Head(b.decadesQueue))]
    ELSE [b EXCEPT !.workers[w] = [pc |-> "end", decade |-> ""]]

\* Array(concurrencyLimit).fill(null).map(async () => ...), line 123: each
\* worker runs up to its first await before the next one is created
RECURSIVE StartWorkers(_, _)
StartWorkers(w, b) ==
    IF w > concurrencyLimit THEN b ELSE StartWorkers(w + 1, WorkerLoop(w, b))

\* Promise.race in the place of Promise.all
AnySettled(b) == \E w \in 1..concurrencyLimit : b.workers[w].pc = "end"

\* await Promise.all(workers), line 132
AllSettled(b) == \A w \in 1..concurrencyLimit : b.workers[w].pc = "end"

\* lines 134-135, or the batch still waiting at line 132
Join(i, b) ==
    IF AllSettled(b)
    THEN /\ isLoading' = FALSE
         /\ appState' = "results-shown"
         /\ batches' = [batches EXCEPT ![i] = [b EXCEPT !.pc = "done",
                                                        !.results = NoBatch.results]]
    ELSE /\ batches' = [batches EXCEPT ![i] = b]
         /\ UNCHANGED <<isLoading, appState>>

handleGenerateClick ==
    /\ GenerateShown
    /\ IF NotUploaded(uploadedImage)
       THEN /\ lastOp' = Op("handleGenerateClick", "returned")
            /\ UNCHANGED <<generatedImages, isLoading, appState, batches>>
       ELSE LET b == StartWorkers(1, [NoBatch EXCEPT !.pc = "running",
                                                     !.decadesQueue = DECADES])
            IN  /\ generatedImages' = initialImages
                /\ IF AllSettled(b)
                   THEN Join(uploadedImage, b)
                   ELSE /\ isLoading' = TRUE
                        /\ appState' = "generating"
                        /\ batches' = [batches EXCEPT ![uploadedImage] = b]
                /\ lastOp' = Op("handleGenerateClick", "started")
    /\ UNCHANGED <<uploadedImage, customCaptions, isDownloading, canShare, readers,
                   picked, regens, album>>

\* the continuation of worker w of the batch on image i when its call settles:
\* the write of processDecade, then the worker's loop, then, when this was the
\* last worker, lines 134-135
WorkerSettle(i, w, outcome, keep) ==
    /\ batches[i].pc = "running"
    /\ batches[i].workers[w].pc = "await"
    /\ LET decade == batches[i].workers[w].decade
           entry == Settled(i, decade, outcome)
           b == WorkerLoop(w, [batches[i] EXCEPT
                                   !.results[decade] = IF keep THEN entry ELSE @])
       IN  /\ generatedImages' = Put(generatedImages, decade, entry)
           /\ Join(i, b)
           /\ lastOp' = Run("processDecade",
                            IF AllSettled(b) THEN "joined" ELSE b.workers[w].pc, i)
    /\ UNCHANGED <<uploadedImage, customCaptions, isDownloading, canShare, readers,
                   picked, regens, album>>

(***************************************************************************)
(* handleRegenerateDecade, lines 138-170.                                   *)
(***************************************************************************)
RECURSIVE Sum(_, _)
Sum(f, S) == IF S = {} THEN 0
             ELSE LET c == CHOOSE x \in S : TRUE IN f[c] + Sum(f, S \ {c})

InFlightRegens == Sum(regens, DecadeSet \X Images)

\* handleRegenerateDecade without its guard
NeverPending(obj, decade) == FALSE

\* line 142: a generation is already in progress
AlreadyPending(obj, decade) == Status(obj, decade) = "pending"

handleRegenerateDecade(decade, maxRegens) ==
    /\ CardsShown
    /\ IF NotUploaded(uploadedImage)
       THEN /\ lastOp' = Op("handleRegenerateDecade", "returned")
            /\ UNCHANGED <<generatedImages, regens>>
       ELSE IF AlreadyPending(generatedImages, decade)
       THEN /\ lastOp' = Op("handleRegenerateDecade", "ignored")
            /\ UNCHANGED <<generatedImages, regens>>
       ELSE /\ InFlightRegens < maxRegens
            /\ generatedImages' = Put(generatedImages, decade, Pending)
            /\ regens' = [regens EXCEPT ![<<decade, uploadedImage>>] = @ + 1]
            /\ lastOp' = Op("handleRegenerateDecade", "issued")
    /\ UNCHANGED <<uploadedImage, customCaptions, isLoading, isDownloading, appState,
                   canShare, readers, picked, batches, album>>

\* the continuation after line 157
RegenerateSettle(decade, i, outcome) ==
    /\ regens[<<decade, i>>] > 0
    /\ regens' = [regens EXCEPT ![<<decade, i>>] = @ - 1]
    /\ generatedImages' = Put(generatedImages, decade, Settled(i, decade, outcome))
    /\ lastOp' = Run("regenerated", IF outcome.ok THEN "done" ELSE "error", i)
    /\ UNCHANGED <<uploadedImage, customCaptions, isLoading, isDownloading, appState,
                   canShare, readers, picked, batches, album>>

(***************************************************************************)
(* handleCaptionChange, lines 172-177, and handleReset, lines 179-185.      *)
(***************************************************************************)
Overridden(captions) == {d \in DecadeSet : captions[d] # NoOverride}

handleCaptionChange(decade, newCaption) ==
    /\ CardsShown
    /\ customCaptions' = [customCaptions EXCEPT ![decade] = newCaption]
    /\ Cardinality(Overridden(customCaptions')) <= MaxOverrides
    /\ lastOp' = Op("handleCaptionChange", "")
    /\ UNCHANGED <<uploadedImage, generatedImages, isLoading, isDownloading, appState,
                   canShare, readers, picked, batches, regens, album>>

\* handleReset without its line 182
KeptCaptions(captions) == captions

\* setCustomCaptions({}), line 182
ClearedCaptions(captions) == NoCaptions

handleReset ==
    /\ GenerateShown \/ AlbumButtonsShown
    /\ uploadedImage' = NoImage
    /\ generatedImages' = <<>>
    /\ customCaptions' = ClearedCaptions(customCaptions)
    /\ appState' = "idle"
    /\ lastOp' = Op("handleReset", "")
    /\ UNCHANGED <<isLoading, isDownloading, canShare, readers, picked, batches,
                   regens, album>>

(***************************************************************************)
(* prepareAlbumData, lines 222-236.                                         *)
(***************************************************************************)
\* status === 'done' && url, line 225: the generator's urls are non-empty
IsDoneWithUrl(e) == e.val.status = "done" /\ "url" \in DOMAIN e.val

\* lines 224-229: the done entries, in the key order of generatedImages
ImageData(obj) ==
    LET done == SelectSeq(obj, IsDoneWithUrl)
    IN  [i \in 1..Len(done) |-> [key |-> done[i].key, val |-> done[i].val.url]]

\* the test of line 231 off by one
prepareAlbumDataLax(obj) ==
    IF Len(ImageData(obj)) + 1 < Len(DECADES)
    THEN [null |-> TRUE, imageData |-> <<>>]
    ELSE [null |-> FALSE, imageData |-> ImageData(obj)]

\* lines 231-235: null (with the alert "Please wait ...") or imageData
prepareAlbumData(obj) ==
    IF Len(ImageData(obj)) < Len(DECADES)
    THEN [null |-> TRUE, imageData |-> <<>>]
    ELSE [null |-> FALSE, imageData |-> ImageData(obj)]

(***************************************************************************)
(* handleDownloadAlbum, lines 238-257, and handleShareAlbum, lines 259-290. *)
(***************************************************************************)
\* createAlbumPage(imageData, {}): the captions left out of the call
AlbumCallBare(kind, imageData) ==
    [pc |-> "createAlbumPage", kind |-> kind, imageData |-> imageData,
     captions |-> NoCaptions, fileName |-> <<>>]

\* the arguments of createAlbumPage(imageData, customCaptions), lines 244, 265
AlbumCall(kind, imageData) ==
    [pc |-> "createAlbumPage", kind |-> kind, imageData |-> imageData,
     captions |-> customCaptions, fileName |-> <<>>]

\* the names of the values createAlbumPage, dataUrlToFile and navigator.share
\* reject with
Rejections == {"Error", "AbortError"}

\* lines 239-242 and 260-263
HandleAlbum(kind) ==
    /\ AlbumButtonsShown
    /\ ~isDownloading
    /\ LET data == prepareAlbumData(generatedImages)
       IN  IF data.null
           THEN /\ lastOp' = Op(kind, "refused")
                /\ UNCHANGED <<isDownloading, album>>
           ELSE /\ isDownloading' = TRUE
                /\ album' = AlbumCall(kind, data.imageData)
                /\ lastOp' = Op(kind, "composing")
    /\ UNCHANGED <<uploadedImage, generatedImages, customCaptions, isLoading, appState,
                   canShare, readers, picked, batches, regens>>

handleDownloadAlbum == HandleAlbum("handleDownloadAlbum")

handleShareAlbum == canShare /\ HandleAlbum("handleShareAlbum")

\* catch blocks that never alert
AlbumFailedQuiet(name) ==
    /\ lastOp' = Op(album.kind, "silent")
    /\ album' = NoAlbum
    /\ isDownloading' = FALSE

\* catch blocks without the finally blocks of lines 254-256 and 287-289
AlbumFailedNoFinally(name) ==
    /\ lastOp' = Op(album.kind,
                    IF album.kind = "handleShareAlbum" /\ name = "AbortError"
                    THEN "silent" ELSE "alert")
    /\ album' = NoAlbum
    /\ UNCHANGED isDownloading

\* the catch and finally blocks: lines 251-256 and 282-289
AlbumFailed(name) ==
    /\ lastOp' = Op(album.kind,
                    IF album.kind = "handleShareAlbum" /\ name = "AbortError"
                    THEN "silent" ELSE "alert")
    /\ album' = NoAlbum
    /\ isDownloading' = FALSE

\* the continuation after await createAlbumPage(...)
AlbumPageSettle(ok, name) ==
    /\ album.pc = "createAlbumPage"
    /\ IF ~ok THEN AlbumFailed(name)
       ELSE IF album.kind = "handleDownloadAlbum"
       THEN \* lines 245-250, then finally
            /\ lastOp' = Op(album.kind, "downloaded")
            /\ album' = NoAlbum
            /\ isDownloading' = FALSE
       ELSE \* lines 267-271
            /\ album' = [album EXCEPT
                   !.pc = "dataUrlToFile",
                   !.fileName = <<Keys(album.imageData)[1],
                                  Keys(album.imageData)[Len(album.imageData)]>>]
            /\ lastOp' = Op(album.kind, "filing")
            /\ UNCHANGED isDownloading
    /\ UNCHANGED <<uploadedImage, generatedImages, customCaptions, isLoading, appState,
                   canShare, readers, picked, batches, regens>>

\* the continuation after await dataUrlToFile(...), lines 273-281
AlbumFileSettle(ok, name, shareable) ==
    /\ album.pc = "dataUrlToFile"
    /\ IF ~ok THEN AlbumFailed(name)
       ELSE IF shareable
       THEN /\ album' = [album EXCEPT !.pc = "share"]
            /\ lastOp' = Op(album.kind, "sharing")
            /\ UNCHANGED isDownloading
       ELSE /\ lastOp' = Op(album.kind, "unshareable")
            /\ album' = NoAlbum
            /\ isDownloading' = FALSE
    /\ UNCHANGED <<uploadedImage, generatedImages, customCaptions, isLoading, appState,
                   canShare, readers, picked, batches, regens>>

\* the continuation after await navigator.share(...)
AlbumShareSettle(ok, name) ==
    /\ album.pc = "share"
    /\ IF ~ok THEN AlbumFailed(name)
       ELSE /\ lastOp' = Op(album.kind, "shared")
            /\ album' = NoAlbum
            /\ isDownloading' = FALSE
    /\ UNCHANGED <<uploadedImage, generatedImages, customCaptions, isLoading, appState,
                   canShare, readers, picked, batches, regens>>

(***************************************************************************)
(* The generation pipeline alone: every interleaving of uploads, batches,   *)
(* regenerations and resets, with calls that succeed or fail.               *)
(***************************************************************************)
Next ==
    \/ handleImageUpload(MaxUploads)
    \/ \E i \in Images, ok \in BOOLEAN : ReaderLoadEnd(i, ok)
    \/ handleGenerateClick
    \/ \E i \in Images, w \in 1..concurrencyLimit, o \in Outcomes({QuotaError}) :
          WorkerSettle(i, w, o, FALSE)
    \/ \E d \in DecadeSet : handleRegenerateDecade(d, MaxRegens)
    \/ \E d \in DecadeSet, i \in Images, o \in Outcomes({QuotaError}) :
          RegenerateSettle(d, i, o)
    \/ handleReset

Spec == Init /\ [][Next]_vars

(***************************************************************************)
(* The whole application, with a user who picks a file only when no file    *)
(* is still being read.                                                     *)
(***************************************************************************)
NextApp ==
    \/ handleImageUpload(MaxReaders)
    \/ \E i \in Images, ok \in BOOLEAN : ReaderLoadEnd(i, ok)
    \/ handleGenerateClick
    \/ \E i \in Images, w \in 1..concurrencyLimit, o \in Outcomes({QuotaError}) :
          WorkerSettle(i, w, o, FALSE)
    \/ \E d \in DecadeSet : handleRegenerateDecade(d, MaxRetries)
    \/ \E d \in DecadeSet, i \in Images, o \in Outcomes({QuotaError}) :
          RegenerateSettle(d, i, o)
    \/ \E d \in DecadeSet, c \in Captions : handleCaptionChange(d, c)
    \/ handleReset
    \/ handleDownloadAlbum
    \/ handleShareAlbum
    \/ \E ok \in BOOLEAN, n \in Rejections : AlbumPageSettle(ok, n)
    \/ \E ok \in BOOLEAN, n \in Rejections, sh \in BOOLEAN : AlbumFileSettle(ok, n, sh)
    \/ \E ok \in BOOLEAN, n \in Rejections : AlbumShareSettle(ok, n)

SpecApp == Init /\ [][NextApp]_vars

(***************************************************************************)
(* The pipeline with a user who picks a file only when no file is still     *)
(* being read, keeping what each processDecade of the running batch wrote.  *)
(***************************************************************************)
NextBatch ==
    \/ handleImageUpload(MaxReaders)
    \/ \E i \in Images, ok \in BOOLEAN : ReaderLoadEnd(i, ok)
    \/ handleGenerateClick
    \/ \E i \in Images, w \in 1..concurrencyLimit, o \in Outcomes({QuotaError}) :
          WorkerSettle(i, w, o, TRUE)
    \/ \E d \in DecadeSet : handleRegenerateDecade(d, MaxRetries)
    \/ \E d \in DecadeSet, i \in Images, o \in Outcomes({QuotaError}) :
          RegenerateSettle(d, i, o)
    \/ handleReset

SpecBatch == Init /\ [][NextBatch]_vars

(***************************************************************************)
(* The same with a generator whose calls all settle: a worker that awaits   *)
(* a call is resumed.                                                       *)
(***************************************************************************)
SettleWorker(i) ==
    \E w \in 1..concurrencyLimit, o \in Outcomes({QuotaError}) : WorkerSettle(i, w, o, TRUE)

SpecLive == SpecBatch /\ \A i \in Images : WF_vars(SettleWorker(i))

(***************************************************************************)
(* The pipeline with a generator that rejects with any kind of thrown       *)
(* value: an Error with a message, an Error with an empty message, or a     *)
(* value that is not an Error.                                              *)
(***************************************************************************)
NextErrors ==
    \/ handleImageUpload(MaxReaders)
    \/ \E i \in Images, ok \in BOOLEAN : ReaderLoadEnd(i, ok)
    \/ handleGenerateClick
    \/ \E i \in Images, w \in 1..concurrencyLimit, o \in Outcomes(Thrown) :
          WorkerSettle(i, w, o, FALSE)
    \/ \E d \in DecadeSet : handleRegenerateDecade(d, MaxRetries)
    \/ \E d \in DecadeSet, i \in Images, o \in Outcomes(Thrown) :
          RegenerateSettle(d, i, o)
    \/ handleReset

SpecErrors == Init /\ [][NextErrors]_vars

(***************************************************************************)
(* The pipeline with the album share, with a user who may pick a second     *)
(* file while the first is still being read.                                *)
(***************************************************************************)
NextShare ==
    \/ handleImageUpload(MaxUploads)
    \/ \E i \in Images, ok \in BOOLEAN : ReaderLoadEnd(i, ok)
    \/ handleGenerateClick
    \/ \E i \in Images, w \in 1..concurrencyLimit, o \in Outcomes({QuotaError}) :
          WorkerSettle(i, w, o, FALSE)
    \/ \E d \in DecadeSet : handleRegenerateDecade(d, MaxRetries)
    \/ \E d \in DecadeSet, i \in Images, o \in Outcomes({QuotaError}) :
          RegenerateSettle(d, i, o)
    \/ handleReset
    \/ handleShareAlbum
    \/ \E ok \in BOOLEAN, n \in Rejections : AlbumPageSettle(ok, n)
    \/ \E ok \in BOOLEAN, n \in Rejections, sh \in BOOLEAN : AlbumFileSettle(ok, n, sh)
    \/ \E ok \in BOOLEAN, n \in Rejections : AlbumShareSettle(ok, n)

SpecShare == Init /\ [][NextShare]_vars

(***************************************************************************)
(* Calls of generateDecadeImage that have been issued and have not settled. *)
(***************************************************************************)
Awaiting(i, decade) ==
    {w \in 1..concurrencyLimit :
        /\ batches[i].pc = "running"
        /\ batches[i].workers[w] = [pc |-> "await", decade |-> decade]}

WorkerCalls == [c \in DecadeSet \X Images |-> Cardinality(Awaiting(c[2], c[1]))]

CallsFor(decade) ==
    Sum(WorkerCalls, {decade} \X Images) + Sum(regens, {decade} \X Images)

InFlight == Sum(WorkerCalls, DecadeSet \X Images) + InFlightRegens

BatchRunning == \E i \in Images : batches[i].pc = "running"

Joined == lastOp.op = "processDecade" /\ lastOp.did = "joined"

DoneCount(obj) == Cardinality({d \in DecadeSet : Status(obj, d) = "done"})

\* how many times x occurs in seq
Times(seq, x) == Cardinality({k \in 1..Len(seq) : seq[k] = x})

\* the run on image i has nothing left to do: its queue is empty and every
\* worker has left its loop
Drained(i) ==
    /\ Len(batches[i].decadesQueue) = 0
    /\ \A d \in DecadeSet : Awaiting(i, d) = {}
    /\ \A w \in 1..concurrencyLimit : batches[i].workers[w].pc = "end"

(***************************************************************************)
(* C1: when a batch completes (Promise.all has resolved and appState is     *)
(* set to 'results-shown'), every identifier of DECADES has an entry whose  *)
(* status is 'done' or 'error', and none is 'pending'.                      *)
(***************************************************************************)
C1_BatchEndLeavesNonePending ==
    Joined => \A d \in DecadeSet : Status(generatedImages, d) \in {"done", "error"}

(***************************************************************************)
(* C2: while a batch is running, at most concurrencyLimit calls of          *)
(* generateDecadeImage are in flight, whichever handler issued them.        *)
(***************************************************************************)
C2_AtMostLimitInFlight == BatchRunning => InFlight <= concurrencyLimit

(***************************************************************************)
(* C3: within one batch run the workers claim disjoint identifiers and      *)
(* together all of them: the identifiers passed to processDecade and the    *)
(* ones still queued are the catalog, each once; no two workers hold the    *)
(* same identifier; when the run is over every identifier has been passed   *)
(* to processDecade exactly once.                                           *)
(***************************************************************************)
C3_ExclusiveClaims ==
    \A i \in Images :
        LET b == batches[i]
        IN  b.pc # "none" =>
              /\ \A d \in DecadeSet : Times(b.issued, d) + Times(b.decadesQueue, d) = 1
              /\ \A d \in DecadeSet : Cardinality(Awaiting(i, d)) <= 1
              /\ \A w \in 1..concurrencyLimit :
                    b.workers[w].pc = "await" => Times(b.issued, b.workers[w].decade) = 1
              /\ b.pc = "done" => \A d \in DecadeSet : Times(b.issued, d) = 1

\* a finished run in which a worker went round its loop more than once
C3_Witness ==
    \E i \in Images :
        /\ batches[i].pc = "done"
        /\ Len(batches[i].issued) > concurrencyLimit
        /\ Joined

(***************************************************************************)
(* C4: handleRegenerateDecade(X) while X's entry is 'pending' changes no    *)
(* entry and issues no generateDecadeImage call.                            *)
(***************************************************************************)
C4_RegeneratePendingIsNoOp ==
    [][\A d \in DecadeSet :
          (Status(generatedImages, d) = "pending" /\ handleRegenerateDecade(d, MaxRegens))
             => UNCHANGED <<uploadedImage, generatedImages, customCaptions, isLoading,
                            isDownloading, appState, batches, regens, album>>]_vars

\* the handler has just returned at line 143 while a call is in flight
C4_Witness ==
    /\ lastOp = Op("handleRegenerateDecade", "ignored")
    /\ InFlight > 0

(***************************************************************************)
(* C5: for every identifier X, at no instant are two generateDecadeImage    *)
(* calls for X in flight at once.                                           *)
(***************************************************************************)
C5_OneCallPerDecade == \A d \in DecadeSet : CallsFor(d) <= 1

(***************************************************************************)
(* C6: handleReset leaves generatedImages with no entry and customCaptions  *)
(* with no override, and the handleGenerateClick that follows starts with   *)
(* every identifier of DECADES at 'pending', with no url and no error.      *)
(***************************************************************************)
C6_ResetThenAllPending ==
    /\ lastOp.op = "handleReset" =>
          /\ Len(generatedImages) = 0
          /\ \A d \in DecadeSet : customCaptions[d] = NoOverride
    /\ lastOp = Op("handleGenerateClick", "started") =>
          /\ Keys(generatedImages) = DECADES
          /\ \A d \in DecadeSet :
                /\ Status(generatedImages, d) = "pending"
                /\ DOMAIN Get(generatedImages, d) = {"status"}

\* the batch of the second photo starts while a call of the first is in flight
C6_Witness ==
    /\ lastOp = Op("handleGenerateClick", "started")
    /\ uploadedImage = 2
    /\ \E d \in DecadeSet : regens[<<d, 1>>] > 0

(***************************************************************************)
(* C7: prepareAlbumData returns null whenever fewer than DECADES.length     *)
(* identifiers are 'done', and then no createAlbumPage call is made; when   *)
(* all are 'done' it returns the mapping of every identifier to its url,    *)
(* and the handler makes one createAlbumPage call with it.                  *)
(***************************************************************************)
C7_AlbumOnlyWhenAllDone ==
    LET data == prepareAlbumData(generatedImages)
        n == DoneCount(generatedImages)
    IN  /\ n < Len(DECADES) => data.null
        /\ n = Len(DECADES) =>
              /\ ~data.null
              /\ Len(data.imageData) = Len(DECADES)
              /\ \A d \in DecadeSet :
                    /\ Has(data.imageData, d)
                    /\ Get(data.imageData, d) = Get(generatedImages, d).url
        /\ lastOp.did = "refused" =>
              n < Len(DECADES) /\ album.pc = "idle" /\ ~isDownloading
        /\ lastOp.did = "composing" =>
              /\ n = Len(DECADES)
              /\ album.pc = "createAlbumPage"
              /\ album.imageData = data.imageData
        /\ album.pc = "createAlbumPage" => Len(album.imageData) = Len(DECADES)

\* the album is refused with one identifier short of the catalog
C7_Witness ==
    /\ lastOp = Op("handleDownloadAlbum", "refused")
    /\ DoneCount(generatedImages) = Len(DECADES) - 1

(***************************************************************************)
(* C8: a caption override changes only in handleCaptionChange and           *)
(* handleReset (no status transition of any identifier touches it), it is   *)
(* removed only by handleReset, and the overrides in force are the          *)
(* captions passed to createAlbumPage.                                      *)
(***************************************************************************)
C8_CaptionsOutliveTransitions ==
    [][/\ \A d \in DecadeSet :
             customCaptions'[d] # customCaptions[d] =>
                lastOp'.op \in {"handleCaptionChange", "handleReset"}
       /\ \A d \in DecadeSet :
             (customCaptions[d] # NoOverride /\ customCaptions'[d] = NoOverride) =>
                lastOp'.op = "handleReset"
       /\ lastOp'.did = "composing" => album'.captions = customCaptions]_vars

\* createAlbumPage is called with an override
C8_Witness ==
    /\ lastOp.did = "composing"
    /\ \E d \in DecadeSet : album.captions[d] = "Groovy Me"

(***************************************************************************)
(* C9: after a batch, each identifier's entry is the outcome of its own     *)
(* call: 'done' with the url that call returned, or 'error' with that       *)
(* call's message, whatever happened to the other identifiers.              *)
(***************************************************************************)
C9_EntriesAreOwnOutcomes ==
    [][\A i \in Images :
          (batches[i].pc = "running" /\ batches'[i].pc = "done") =>
             \A d \in DecadeSet :
                batches[i].results[d] # NoResult =>
                   /\ Has(generatedImages', d)
                   /\ Get(generatedImages', d) = batches[i].results[d]]_vars

(***************************************************************************)
(* C10: when every generateDecadeImage call settles, a batch that has       *)
(* started completes, with appState 'results-shown' and isLoading false;    *)
(* and a batch completes only when none of its workers has a call in        *)
(* flight and its decadesQueue is empty.                                    *)
(***************************************************************************)
C10_BatchCompletes ==
    /\ \A i \in Images :
          (batches[i].pc = "running") ~>
             (batches[i].pc = "done" /\ Joined /\ appState = "results-shown" /\ ~isLoading)
    /\ [](\A i \in Images : batches[i].pc = "done" => Drained(i))
    /\ [](Joined => \E i \in Images : batches[i].pc = "done" /\ Drained(i))

\* a batch of more identifiers than workers has completed
C10_Witness ==
    /\ Joined
    /\ appState = "results-shown"
    /\ ~isLoading
    /\ \E i \in Images : batches[i].pc = "done" /\ Len(DECADES) > concurrencyLimit

(***************************************************************************)
(* C11: in every reachable state each entry of generatedImages agrees with  *)
(* its status: it has a url exactly when its status is 'done', it has an    *)
(* error exactly when its status is 'error', a 'pending' entry has          *)
(* neither, and no entry has both.                                          *)
(***************************************************************************)
C11_EntriesMatchStatus ==
    \A k \in 1..Len(generatedImages) :
        LET e == generatedImages[k].val
        IN  /\ e.status \in {"pending", "done", "error"}
            /\ ("url" \in DOMAIN e) <=> (e.status = "done")
            /\ ("error" \in DOMAIN e) <=> (e.status = "error")
            /\ e.status = "pending" => DOMAIN e = {"status"}
            /\ ~("url" \in DOMAIN e /\ "error" \in DOMAIN e)

\* the three kinds of entry side by side, the failed one just written over a
\* 'pending' one
C11_Witness ==
    /\ lastOp.did = "error"
    /\ \E d \in DecadeSet : Status(generatedImages, d) = "done"
    /\ \E d \in DecadeSet : Status(generatedImages, d) = "error"
    /\ \E d \in DecadeSet : Status(generatedImages, d) = "pending"

(***************************************************************************)
(* C12: when a generateDecadeImage call fails, the entry of its identifier  *)
(* becomes 'error' with a non-empty message: the message of the thrown      *)
(* value when it is an Error with a non-empty message, and "An unknown      *)
(* error occurred." when it is an Error with an empty message or is not an  *)
(* Error.                                                                   *)
(***************************************************************************)
C12_FailureMessage ==
    [][\A d \in DecadeSet, i \in Images, e \in Thrown :
          LET o == [ok |-> FALSE, err |-> e]
              expected == IF e.isError /\ e.message # ""
                          THEN e.message
                          ELSE "An unknown error occurred."
          IN  (\/ \E w \in 1..concurrencyLimit :
                     /\ batches[i].workers[w].decade = d
                     /\ WorkerSettle(i, w, o, FALSE)
               \/ RegenerateSettle(d, i, o))
                 => /\ Get(generatedImages', d) = [status |-> "error", error |-> expected]
                    /\ Get(generatedImages', d).error # ""]_vars

(***************************************************************************)
(* C13: a call started before handleReset never decides an entry of the     *)
(* next photo cycle: once the next batch has completed and no call is in    *)
(* flight any more, every 'done' entry holds the url of a call made with    *)
(* the source image of the cycle.                                           *)
(***************************************************************************)
C13_StaleCallsAreHarmless ==
    (appState = "results-shown" /\ uploadedImage # NoImage /\ InFlight = 0) =>
        \A d \in DecadeSet :
            Status(generatedImages, d) = "done" =>
                Get(generatedImages, d).url = ResultUrl(uploadedImage, d)

(***************************************************************************)
(* C14: with a source image, handleRegenerateDecade(X) on a 'done' or       *)
(* 'error' entry replaces it by a bare 'pending' entry and issues one       *)
(* generateDecadeImage call; when the call settles X becomes 'done' with    *)
(* the url it returned, or 'error'.  After the batch an 'error' entry        *)
(* becomes 'done' only by a regeneration that succeeded; the album is       *)
(* refused while an identifier is not 'done' and accepted when all are.     *)
(***************************************************************************)
C14_RegenerationProtocol ==
    [][/\ \A d \in DecadeSet :
             (/\ lastOp'.op = "handleRegenerateDecade"
              /\ uploadedImage # NoImage
              /\ Status(generatedImages, d) \in {"done", "error"}
              /\ handleRegenerateDecade(d, MaxRetries))
                => /\ Get(generatedImages', d) = [status |-> "pending"]
                   /\ regens' = [regens EXCEPT ![<<d, uploadedImage>>] = @ + 1]
                   /\ batches' = batches
       /\ \A d \in DecadeSet, i \in Images :
             /\ (lastOp'.op = "regenerated" /\ RegenerateSettle(d, i, [ok |-> TRUE]))
                   => /\ Get(generatedImages', d) = [status |-> "done", url |-> ResultUrl(i, d)]
                      /\ regens' = [regens EXCEPT ![<<d, i>>] = @ - 1]
                      /\ batches' = batches
             /\ (/\ lastOp'.op = "regenerated"
                 /\ RegenerateSettle(d, i, [ok |-> FALSE, err |-> QuotaError]))
                   => /\ Status(generatedImages', d) = "error"
                      /\ regens' = [regens EXCEPT ![<<d, i>>] = @ - 1]
                      /\ batches' = batches
       /\ \A d \in DecadeSet :
             (/\ appState = "results-shown"
              /\ Status(generatedImages, d) = "error"
              /\ Status(generatedImages', d) = "done")
                => lastOp'.op = "regenerated" /\ lastOp'.did = "done"
       /\ (/\ lastOp'.did \in {"refused", "composing"}
           /\ handleDownloadAlbum \/ handleShareAlbum)
             => (lastOp'.did = "composing"
                    <=> \A d \in DecadeSet : Status(generatedImages, d) = "done")]_vars

(***************************************************************************)
(* C15: a status transition (the 'pending' of a regeneration, the outcome   *)
(* of a call) replaces the entry of one identifier and leaves the entry of  *)
(* every other identifier as it was; and for any two calls in flight for    *)
(* different identifiers, applying their completions in either order gives  *)
(* the same mapping from identifiers to entries.                            *)
(***************************************************************************)
C15_TransitionsCommute ==
    /\ [][(\/ lastOp'.op \in {"processDecade", "regenerated"}
           \/ lastOp' = Op("handleRegenerateDecade", "issued"))
             => \E d \in DecadeSet :
                   /\ Has(generatedImages', d)
                   /\ \A x \in DecadeSet \ {d} :
                         /\ Has(generatedImages', x) <=> Has(generatedImages, x)
                         /\ Has(generatedImages, x)
                               => Get(generatedImages', x) = Get(generatedImages, x)]_vars
    /\ [](\A c1, c2 \in DecadeSet \X Images :
             (/\ c1[1] # c2[1]
              /\ WorkerCalls[c1] + regens[c1] > 0
              /\ WorkerCalls[c2] + regens[c2] > 0)
                => \A o1, o2 \in Outcomes({QuotaError}) :
                      LET e1 == Settled(c1[2], c1[1], o1)
                          e2 == Settled(c2[2], c2[1], o2)
                          a == Put(Put(generatedImages, c1[1], e1), c2[1], e2)
                          b == Put(Put(generatedImages, c2[1], e2), c1[1], e1)
                      IN  /\ \A x \in DecadeSet : Has(a, x) <=> Has(b, x)
                          /\ \A x \in DecadeSet : Has(a, x) => Get(a, x) = Get(b, x)
                          /\ Get(a, c1[1]) = e1
                          /\ Get(a, c2[1]) = e2)

\* a later identifier of the catalog has its outcome while the call of the
\* first one is still in flight
C15_Witness ==
    /\ lastOp.op = "processDecade"
    /\ Status(generatedImages, DECADES[2]) \in {"done", "error"}
    /\ Status(generatedImages, DECADES[1]) = "pending"
    /\ CallsFor(DECADES[1]) > 0

(***************************************************************************)
(* C16: in a batch the calls are issued in catalog order: the identifiers   *)
(* passed to processDecade so far, in call order, followed by the ones      *)
(* still queued, are DECADES.  After the start of the batch a call is       *)
(* issued only by a worker whose previous call has settled, in the step     *)
(* that has written the entry of that previous call.                        *)
(***************************************************************************)
C16_ClaimsInCatalogOrder ==
    /\ [](\A i \in Images :
             batches[i].pc # "none" =>
                batches[i].issued \o batches[i].decadesQueue = DECADES)
    /\ [][\A i \in Images :
             (/\ batches[i].pc = "running"
              /\ Len(batches'[i].issued) > Len(batches[i].issued))
                => /\ lastOp'.op = "processDecade"
                   /\ Len(batches'[i].issued) = Len(batches[i].issued) + 1
                   /\ \E w \in 1..concurrencyLimit :
                         LET before == batches[i].workers[w]
                             after == batches'[i].workers[w]
                         IN  /\ before.pc = "await"
                             /\ after.pc = "await"
                             /\ after.decade = batches'[i].issued[Len(batches'[i].issued)]
                             /\ after.decade # before.decade
                             /\ Status(generatedImages', before.decade) \in {"done", "error"}
                             /\ \A v \in 1..concurrencyLimit \ {w} :
                                   batches'[i].workers[v] = batches[i].workers[v]]_vars

\* the second worker issues the third call while the first worker still
\* awaits the first one
C16_Witness ==
    \E i \in Images :
        /\ lastOp = Run("processDecade", "await", i)
        /\ batches[i].pc = "running"
        /\ Len(batches[i].issued) = concurrencyLimit + 1
        /\ batches[i].workers[2] = [pc |-> "await", decade |-> DECADES[concurrencyLimit + 1]]
        /\ batches[i].workers[1] = [pc |-> "await", decade |-> DECADES[1]]

(***************************************************************************)
(* C17: whenever handleShareAlbum has built the share file name, the        *)
(* identifiers of its album data are in catalog order and the two names in  *)
(* the file name are DECADES[0] and the last of DECADES.                    *)
(***************************************************************************)
C17_ShareNameInCatalogOrder ==
    (album.kind = "handleShareAlbum" /\ album.pc \in {"dataUrlToFile", "share"}) =>
        /\ Keys(album.imageData) = DECADES
        /\ album.fileName = <<DECADES[1], DECADES[Len(DECADES)]>>

(***************************************************************************)
(* C18: when createAlbumPage fails in handleDownloadAlbum, nothing is       *)
(* downloaded and the user gets the failure alert; in handleShareAlbum a    *)
(* failure named 'AbortError' gives no alert and any other failure of       *)
(* createAlbumPage, dataUrlToFile or navigator.share gives the alert; an    *)
(* album is downloaded only when createAlbumPage has succeeded.             *)
(***************************************************************************)
C18_AlbumFailureNotices ==
    [][album.pc # "idle" =>
          /\ \A n \in Rejections :
                (album.kind = "handleDownloadAlbum" /\ AlbumPageSettle(FALSE, n))
                   => lastOp' = Op("handleDownloadAlbum", "alert")
          /\ \A n \in Rejections :
                (/\ album.kind = "handleShareAlbum"
                 /\ \/ AlbumPageSettle(FALSE, n)
                    \/ \E sh \in BOOLEAN : AlbumFileSettle(FALSE, n, sh)
                    \/ AlbumShareSettle(FALSE, n))
                   => lastOp' = Op("handleShareAlbum",
                                   IF n = "AbortError" THEN "silent" ELSE "alert")
          /\ lastOp'.did = "downloaded"
                => /\ album.kind = "handleDownloadAlbum"
                   /\ \E n \in Rejections : AlbumPageSettle(TRUE, n)
          /\ lastOp'.did \in {"alert", "silent"} => album' = NoAlbum]_vars

\* handleShareAlbum has swallowed a failure named 'AbortError' (the user
\* dismissed the share dialog): nothing was shown and the run is over
C18_Witness ==
    /\ lastOp = Op("handleShareAlbum", "silent")
    /\ album = NoAlbum
    /\ ~isDownloading

(***************************************************************************)
(* C19: with uploadedImage null, handleGenerateClick and                    *)
(* handleRegenerateDecade issue no generateDecadeImage call and leave       *)
(* generatedImages, customCaptions, isLoading and appState as they were.    *)
(***************************************************************************)
C19_NoSourceNoCall ==
    [][(/\ uploadedImage = NoImage
        /\ lastOp'.op \in {"handleGenerateClick", "handleRegenerateDecade"}
        /\ \/ handleGenerateClick
           \/ \E d \in DecadeSet : handleRegenerateDecade(d, MaxRegens))
          => /\ UNCHANGED <<generatedImages, customCaptions, isLoading, appState>>
             /\ UNCHANGED <<batches, regens>>]_vars

\* a card that shows a finished entry is shaken while there is no source
\* image, and the handler has returned at its first line
C19_Witness ==
    /\ lastOp = Op("handleRegenerateDecade", "returned")
    /\ uploadedImage = NoImage
    /\ CardsShown
    /\ \E d \in DecadeSet : Status(generatedImages, d) \in {"done", "error"}

(***************************************************************************)
(* C20: in every reachable state, an identifier with a generateDecadeImage  *)
(* call in flight has a 'pending' entry or no entry: no entry shows 'done'  *)
(* or 'error' while a call for its identifier is outstanding.               *)
(***************************************************************************)
C20_InFlightIsPending ==
    \A d \in DecadeSet :
        CallsFor(d) > 0 => Status(generatedImages, d) \in {"pending", "undefined"}

(***************************************************************************)
(* C21: in every reachable state, an entry with status 'pending' has a      *)
(* generateDecadeImage call in flight for its identifier, or its            *)
(* identifier is still in the decadesQueue of a running batch.              *)
(***************************************************************************)
C21_PendingHasCall ==
    \A k \in 1..Len(generatedImages) :
        generatedImages[k].val.status = "pending" =>
            \/ CallsFor(generatedImages[k].key) > 0
            \/ \E i \in Images :
                  /\ batches[i].pc = "running"
                  /\ Times(batches[i].decadesQueue, generatedImages[k].key) > 0

\* one 'pending' entry is backed only by the queue of the running batch,
\* another by the call of a regeneration issued during that batch
C21_Witness ==
    /\ lastOp = Op("handleRegenerateDecade", "issued")
    /\ \E d \in DecadeSet :
          /\ Status(generatedImages, d) = "pending"
          /\ CallsFor(d) = 0
          /\ \E i \in Images :
                batches[i].pc = "running" /\ Times(batches[i].decadesQueue, d) > 0
    /\ \E d \in DecadeSet :
          /\ Status(generatedImages, d) = "pending"
          /\ Sum(regens, {d} \X Images) > 0

(***************************************************************************)
(* C22: isDownloading is true exactly while a run of handleDownloadAlbum    *)
(* or handleShareAlbum is between its start and its end; it changes only    *)
(* in these handlers; it is false once the run has ended, by success, by a  *)
(* failure of composing or sharing, or by a cancelled share; a refused      *)
(* album leaves it false.                                                   *)
(***************************************************************************)
C22_DownloadingWhileAlbumRuns ==
    /\ [](isDownloading <=> album.pc # "idle")
    /\ [](lastOp.did \in {"refused", "downloaded", "shared", "unshareable", "alert", "silent"}
             => ~isDownloading /\ album = NoAlbum)
    /\ [](lastOp.did \in {"composing", "filing", "sharing"} => isDownloading)
    /\ [][isDownloading' # isDownloading
             => lastOp'.op \in {"handleDownloadAlbum", "handleShareAlbum"}]_vars
    /\ [][lastOp'.did = "refused" => ~isDownloading /\ ~isDownloading']_vars

\* a run of handleDownloadAlbum has ended in its catch block
C22_Witness ==
    /\ lastOp = Op("handleDownloadAlbum", "alert")
    /\ ~isDownloading
    /\ album.pc = "idle"

====
